---- MODULE Spec2Model ----
(***************************************************************************)
(* Model of node-po6-mmap: the convenience API over the low-level          *)
(* mmap/munmap interface (src/lib/convenience-api.ts), the mapping handle  *)
(* it returns, and the process-wide FinalizationRegistry that reports a    *)
(* mapping whose unmap closure was garbage collected while registered.     *)
(*                                                                         *)
(* JavaScript values are encoded as follows:                               *)
(*   undefined            the empty sequence << >>                         *)
(*   a defined value v    the one-element sequence << v >>                 *)
(*   an Error             a record [prefix, value, suffix] holding the     *)
(*                        pieces of the template literal of its message    *)
(***************************************************************************)
EXTENDS Integers, Sequences, FiniteSets, TLC

VARIABLES
    handles,        \* closure state of every memoryMappingFromAddress call
    objects,        \* the object literal each call returned to the caller
    registry,       \* cells of mappedBuffersFinalizationRegistry
    handleRef,      \* handles whose returned object the caller still holds
    unmapRef,       \* handles whose unmap function the caller holds detached
    collected,      \* handles whose unmap closure the collector reclaimed
    leaks,          \* per handle, the errors thrown by the registry callback
    origin,         \* per handle, the address mmap returned and the length asked
    munmapOk,       \* per handle, number of munmap calls that reported success
    released,       \* handles on which a call of unmap returned normally
    registrations,  \* number of register calls made on the registry so far
    views,          \* the ArrayBuffers the caller retained, with their handle
    lowLevelPageSize, \* what determinePageSize of the injected interface returns
    lastOp          \* observation of the last API call: arguments and outcome

vars == << handles, objects, registry, handleRef, unmapRef, collected,
           leaks, origin, munmapOk, released, registrations, views,
           lowLevelPageSize, lastOp >>

----------------------------------------------------------------------------
(* Bounds of the model *)

MaxHandles == 2

----------------------------------------------------------------------------
(* JavaScript helpers *)

Undefined == << >>

Some(v) == << v >>

IsDefined(x) == x # Undefined

ValueOf(x) == x[1]

\* JavaScript's % : the remainder takes the sign of the dividend
JsRem(a, b) == IF a >= 0 THEN a % b ELSE 0 - ((0 - a) % b)

RECURSIVE BitOr(_, _)
BitOr(a, b) ==
    IF a = 0 THEN b
    ELSE IF b = 0 THEN a
    ELSE (IF (a % 2 = 1) \/ (b % 2 = 1) THEN 1 ELSE 0)
         + 2 * BitOr(a \div 2, b \div 2)

Error(prefix, value, suffix) ==
    [prefix |-> prefix, value |-> value, suffix |-> suffix]

----------------------------------------------------------------------------
(* Low-level interface: src/lib/low-level-impl-linux.ts *)

determinePageSize == 4096

\* error codes the low-level calls may report (ENOMEM, ENODEV, EINVAL)
Errnos == {12, 22}

\* addresses the operating system may return from mmap
Addresses == {determinePageSize * 16, determinePageSize * 32}

\* TLowLevelMmapResult: either an errno or an address
MmapResults ==
    {[errno |-> Some(e), address |-> Undefined] : e \in Errnos}
    \cup {[errno |-> Undefined, address |-> Some(a)] : a \in Addresses}

\* TLowLevelMunmapResult: an errno or undefined
MunmapResults == {Undefined} \cup {Some(e) : e \in Errnos}

\* descriptors for which fstatSync succeeds
OpenFds == {3}

----------------------------------------------------------------------------
(* Flag translation *)

PROT_READ == 1
PROT_WRITE == 2
PROT_EXEC == 4

\* memoryProtectionFlagsToSyscallValue setting the write bit for PROT_EXEC
memoryProtectionFlagsToSyscallValue_ExecAsWrite(memoryProtectionFlags) ==
    LET f0 == 0
        f1 == IF memoryProtectionFlags.PROT_READ THEN BitOr(f0, PROT_READ) ELSE f0
        f2 == IF memoryProtectionFlags.PROT_WRITE THEN BitOr(f1, PROT_WRITE) ELSE f1
        f3 == IF memoryProtectionFlags.PROT_EXEC THEN BitOr(f2, PROT_WRITE) ELSE f2
    IN  f3

memoryProtectionFlagsToSyscallValue(memoryProtectionFlags) ==
    LET f0 == 0
        f1 == IF memoryProtectionFlags.PROT_READ THEN BitOr(f0, PROT_READ) ELSE f0
        f2 == IF memoryProtectionFlags.PROT_WRITE THEN BitOr(f1, PROT_WRITE) ELSE f1
        f3 == IF memoryProtectionFlags.PROT_EXEC THEN BitOr(f2, PROT_EXEC) ELSE f2
    IN  f3

MAP_PRIVATE == 2
MAP_SHARED_VALIDATE == 3

mappingVisibilityToMmapFlags(mappingVisibility) ==
    IF mappingVisibility = "MAP_PRIVATE" THEN BitOr(0, MAP_PRIVATE)
    ELSE IF mappingVisibility = "MAP_SHARED" THEN BitOr(0, MAP_SHARED_VALIDATE)
    ELSE 0

MAP_32BIT == 64
MAP_LOCKED == 8192
MAP_NORESERVE == 16384

\* genericFlags is a Partial<>: a function whose domain holds the keys present
IsTrue(genericFlags, key) ==
    key \in DOMAIN genericFlags /\ genericFlags[key] = TRUE

\* genericFlagsToMmapFlags setting the bit of every flag that is present
genericFlagsToMmapFlags_Present(genericFlags) ==
    LET f0 == 0
        f1 == IF "MAP_32BIT" \in DOMAIN genericFlags THEN BitOr(f0, MAP_32BIT) ELSE f0
        f2 == IF "MAP_LOCKED" \in DOMAIN genericFlags THEN BitOr(f1, MAP_LOCKED) ELSE f1
        f3 == IF "MAP_NORESERVE" \in DOMAIN genericFlags THEN BitOr(f2, MAP_NORESERVE) ELSE f2
    IN  f3

\* genericFlagsToMmapFlags with MAP_32BIT in the lowest bit, one of the
\* two bits of the visibility
genericFlagsToMmapFlags_LowBit(genericFlags) ==
    LET f0 == 0
        f1 == IF IsTrue(genericFlags, "MAP_32BIT") THEN BitOr(f0, 1) ELSE f0
        f2 == IF IsTrue(genericFlags, "MAP_LOCKED") THEN BitOr(f1, MAP_LOCKED) ELSE f1
        f3 == IF IsTrue(genericFlags, "MAP_NORESERVE") THEN BitOr(f2, MAP_NORESERVE) ELSE f2
    IN  f3

genericFlagsToMmapFlags(genericFlags) ==
    LET f0 == 0
        f1 == IF IsTrue(genericFlags, "MAP_32BIT") THEN BitOr(f0, MAP_32BIT) ELSE f0
        f2 == IF IsTrue(genericFlags, "MAP_LOCKED") THEN BitOr(f1, MAP_LOCKED) ELSE f1
        f3 == IF IsTrue(genericFlags, "MAP_NORESERVE") THEN BitOr(f2, MAP_NORESERVE) ELSE f2
    IN  f3

----------------------------------------------------------------------------
(* Parameter validation *)

\* assertMmapParameters checking the length before the offset
assertMmapParameters_LengthFirst(offsetInFd, length) ==
    LET pageSize == lowLevelPageSize IN
    IF length <= 0
    THEN Some(Error("length must be greater than zero", Undefined, ""))
    ELSE IF JsRem(offsetInFd, pageSize) # 0
    THEN Some(Error("offsetInFd must be multiple of page size ", Some(pageSize), ""))
    ELSE Undefined

\* assertMmapParameters accepting a length of zero
assertMmapParameters_ZeroLength(offsetInFd, length) ==
    LET pageSize == lowLevelPageSize IN
    IF JsRem(offsetInFd, pageSize) # 0
    THEN Some(Error("offsetInFd must be multiple of page size ", Some(pageSize), ""))
    ELSE IF length < 0
    THEN Some(Error("length must be greater than zero", Undefined, ""))
    ELSE Undefined

\* assertMmapParameters with the page size of the Linux implementation in
\* the place of the one the injected interface reports
assertMmapParameters_LinuxPageSize(offsetInFd, length) ==
    LET pageSize == determinePageSize IN
    IF JsRem(offsetInFd, pageSize) # 0
    THEN Some(Error("offsetInFd must be multiple of page size ", Some(pageSize), ""))
    ELSE IF length <= 0
    THEN Some(Error("length must be greater than zero", Undefined, ""))
    ELSE Undefined

\* the Error thrown by assertMmapParameters, or Undefined when it returns;
\* pageSize is determinePageSize() of the interface createConvenienceApi got
assertMmapParameters(offsetInFd, length) ==
    LET pageSize == lowLevelPageSize IN
    IF JsRem(offsetInFd, pageSize) # 0
    THEN Some(Error("offsetInFd must be multiple of page size ", Some(pageSize), ""))
    ELSE IF length <= 0
    THEN Some(Error("length must be greater than zero", Undefined, ""))
    ELSE Undefined

\* assertFdIsValid without the fstat of the descriptor
assertFdIsValid_NoFstat(fd) ==
    IF fd < 0
    THEN Some(Error("invalid file descriptor ", Some(fd), ""))
    ELSE Undefined

\* the Error thrown by assertFdIsValid, or Undefined when it returns
assertFdIsValid(fd) ==
    IF fd < 0
    THEN Some(Error("invalid file descriptor ", Some(fd), ""))
    ELSE IF fd \notin OpenFds
    THEN Some(Error("invalid file descriptor ", Some(fd), ", fstat failed"))
    ELSE Undefined

----------------------------------------------------------------------------
(* The finalization registry and its callback *)

\* the digits of n in base 16, most significant first
RECURSIVE ToHex(_)
ToHex(n) ==
    IF n < 16 THEN << n >> ELSE Append(ToHex(n \div 16), n % 16)

\* formatPointer({ pointerAddress }): the address in hexadecimal after "0x"
formatPointer(pointerAddress) ==
    [prefix |-> "0x", digits |-> ToHex(pointerAddress)]

\* the pieces of the template literals that make up the message of the
\* error: the text before the pointer, the pointer, the text between, the
\* length and the text after
LeakMessage(pointer, length) ==
    [before |-> "memory mapped buffer at address ",
     pointer |-> pointer,
     between |-> " with length ",
     length |-> length,
     after |-> " was garbage collected without calling unmap(). ..."]

\* the constructor formatting the length where the address belongs
MemoryMappedBufferGarbageCollectedWithoutUnmapError_LengthAsAddress(bufferInfo) ==
    [name |-> "MemoryMappedBufferGarbageCollectedWithoutUnmapError",
     message |-> LeakMessage(formatPointer(bufferInfo.length), bufferInfo.length),
     bufferInfo |-> bufferInfo]

\* new MemoryMappedBufferGarbageCollectedWithoutUnmapError({ bufferInfo })
MemoryMappedBufferGarbageCollectedWithoutUnmapError(bufferInfo) ==
    [name |-> "MemoryMappedBufferGarbageCollectedWithoutUnmapError",
     message |-> LeakMessage(formatPointer(bufferInfo.address), bufferInfo.length),
     bufferInfo |-> bufferInfo]

\* the callback handed to new FinalizationRegistry: what it throws when it
\* is invoked with the held value of a reclaimed target
registryCallback(bufferInfo) ==
    MemoryMappedBufferGarbageCollectedWithoutUnmapError(bufferInfo)

\* registryRegister losing the registration
registryRegister_Lost(reg, target, heldValue, token) == reg

\* registryRegister registering the target twice
registryRegister_Twice(reg, target, heldValue, token) ==
    Append(Append(reg, [target |-> target, heldValue |-> heldValue, token |-> token]),
           [target |-> target, heldValue |-> heldValue, token |-> token])

\* mappedBuffersFinalizationRegistry.register(unmap, bufferInfo, token):
\* the registry is the list of its cells
registryRegister(reg, target, heldValue, token) ==
    Append(reg, [target |-> target, heldValue |-> heldValue, token |-> token])

\* registryUnregister when every closure hands the same token to the
\* registry: the cells of all of them are removed
registryUnregister_SharedToken(reg, token) ==
    SelectSeq(reg, LAMBDA cell : FALSE)

\* mappedBuffersFinalizationRegistry.unregister(token)
registryUnregister(reg, token) ==
    SelectSeq(reg, LAMBDA cell : cell.token # token)

----------------------------------------------------------------------------
(* The mapping handle *)

HandleIds == 1..Len(handles)

AlreadyUnmappedError == Error("memory mapping already unmapped", Undefined, "")

MunmapFailedError(errno) == Error("munmap failed with errno ", Some(errno), "")

\* unmapBody throwing the already-unmapped error when munmap fails
unmapBody_SameError(state, reg, token, errno) ==
    IF ~state.mapped
    THEN [threw |-> Some(AlreadyUnmappedError),
          munmapCall |-> Undefined,
          mapped |-> state.mapped,
          registry |-> reg]
    ELSE IF IsDefined(errno)
    THEN [threw |-> Some(AlreadyUnmappedError),
          munmapCall |-> Some([address |-> state.address, length |-> state.length]),
          mapped |-> state.mapped,
          registry |-> reg]
    ELSE [threw |-> Undefined,
          munmapCall |-> Some([address |-> state.address, length |-> state.length]),
          mapped |-> FALSE,
          registry |-> registryUnregister(reg, token)]

\* unmapBody without the check of the mapped flag
unmapBody_NoGuard(state, reg, token, errno) ==
    IF IsDefined(errno)
    THEN [threw |-> Some(MunmapFailedError(ValueOf(errno))),
          munmapCall |-> Some([address |-> state.address, length |-> state.length]),
          mapped |-> state.mapped,
          registry |-> reg]
    ELSE [threw |-> Undefined,
          munmapCall |-> Some([address |-> state.address, length |-> state.length]),
          mapped |-> FALSE,
          registry |-> registryUnregister(reg, token)]

\* unmapBody forgetting to clear the mapped flag
unmapBody_KeepsMapped(state, reg, token, errno) ==
    IF ~state.mapped
    THEN [threw |-> Some(AlreadyUnmappedError),
          munmapCall |-> Undefined,
          mapped |-> state.mapped,
          registry |-> reg]
    ELSE IF IsDefined(errno)
    THEN [threw |-> Some(MunmapFailedError(ValueOf(errno))),
          munmapCall |-> Some([address |-> state.address, length |-> state.length]),
          mapped |-> state.mapped,
          registry |-> reg]
    ELSE [threw |-> Undefined,
          munmapCall |-> Some([address |-> state.address, length |-> state.length]),
          mapped |-> state.mapped,
          registry |-> registryUnregister(reg, token)]

\* unmapBody forgetting to unregister the token
unmapBody_NoUnregister(state, reg, token, errno) ==
    IF ~state.mapped
    THEN [threw |-> Some(AlreadyUnmappedError),
          munmapCall |-> Undefined,
          mapped |-> state.mapped,
          registry |-> reg]
    ELSE IF IsDefined(errno)
    THEN [threw |-> Some(MunmapFailedError(ValueOf(errno))),
          munmapCall |-> Some([address |-> state.address, length |-> state.length]),
          mapped |-> state.mapped,
          registry |-> reg]
    ELSE [threw |-> Undefined,
          munmapCall |-> Some([address |-> state.address, length |-> state.length]),
          mapped |-> FALSE,
          registry |-> reg]

\* unmapBody unregistering the token before it calls munmap
unmapBody_UnregistersFirst(state, reg, token, errno) ==
    IF ~state.mapped
    THEN [threw |-> Some(AlreadyUnmappedError),
          munmapCall |-> Undefined,
          mapped |-> state.mapped,
          registry |-> reg]
    ELSE IF IsDefined(errno)
    THEN [threw |-> Some(MunmapFailedError(ValueOf(errno))),
          munmapCall |-> Some([address |-> state.address, length |-> state.length]),
          mapped |-> state.mapped,
          registry |-> registryUnregister(reg, token)]
    ELSE [threw |-> Undefined,
          munmapCall |-> Some([address |-> state.address, length |-> state.length]),
          mapped |-> FALSE,
          registry |-> registryUnregister(reg, token)]

\* unmapBody clearing the mapped flag before it calls munmap
unmapBody_FlagFirst(state, reg, token, errno) ==
    IF ~state.mapped
    THEN [threw |-> Some(AlreadyUnmappedError),
          munmapCall |-> Undefined,
          mapped |-> state.mapped,
          registry |-> reg]
    ELSE IF IsDefined(errno)
    THEN [threw |-> Some(MunmapFailedError(ValueOf(errno))),
          munmapCall |-> Some([address |-> state.address, length |-> state.length]),
          mapped |-> FALSE,
          registry |-> reg]
    ELSE [threw |-> Undefined,
          munmapCall |-> Some([address |-> state.address, length |-> state.length]),
          mapped |-> FALSE,
          registry |-> registryUnregister(reg, token)]

\* unmap(), as a function of the closure state, the registry, the token of
\* the closure and the errno the low-level munmap reports if it is called
unmapBody(state, reg, token, errno) ==
    IF ~state.mapped
    THEN [threw |-> Some(AlreadyUnmappedError),
          munmapCall |-> Undefined,
          mapped |-> state.mapped,
          registry |-> reg]
    ELSE IF IsDefined(errno)
    THEN [threw |-> Some(MunmapFailedError(ValueOf(errno))),
          munmapCall |-> Some([address |-> state.address, length |-> state.length]),
          mapped |-> state.mapped,
          registry |-> reg]
    ELSE [threw |-> Undefined,
          munmapCall |-> Some([address |-> state.address, length |-> state.length]),
          mapped |-> FALSE,
          registry |-> registryUnregister(reg, token)]

\* address2buffer({ address, size: length }).buffer
address2buffer(address, size) ==
    [address |-> address, byteLength |-> size]

\* createArrayBufferBody making a buffer of one page
createArrayBufferBody_OnePage(state) ==
    IF ~state.mapped
    THEN [threw |-> Some(AlreadyUnmappedError), view |-> Undefined]
    ELSE [threw |-> Undefined,
          view |-> Some(address2buffer(state.address, determinePageSize))]

\* createArrayBufferBody without the check of the mapped flag
createArrayBufferBody_NoGuard(state) ==
    [threw |-> Undefined,
     view |-> Some(address2buffer(state.address, state.length))]

\* createArrayBuffer(), as a function of the closure state
createArrayBufferBody(state) ==
    IF ~state.mapped
    THEN [threw |-> Some(AlreadyUnmappedError), view |-> Undefined]
    ELSE [threw |-> Undefined,
          view |-> Some(address2buffer(state.address, state.length))]

\* memoryMappingFromAddress registering its closure twice
memoryMappingFromAddress_Twice(address, length, id, reg) ==
    LET bufferInfo == [address |-> address, length |-> length] IN
    [closure |-> [address |-> address, length |-> length, mapped |-> TRUE],
     registry |-> registryRegister(registryRegister(reg, id, bufferInfo, id),
                                   id, bufferInfo, id),
     object |-> [id |-> id, address |-> address, length |-> length,
                 unmap |-> TRUE, frozen |-> FALSE]]

\* memoryMappingFromAddress returning an object without the address
memoryMappingFromAddress_NoAddress(address, length, id, reg) ==
    LET bufferInfo == [address |-> address, length |-> length] IN
    [closure |-> [address |-> address, length |-> length, mapped |-> TRUE],
     registry |-> registryRegister(reg, id, bufferInfo, id),
     object |-> [id |-> id, address |-> 0, length |-> length,
                 unmap |-> TRUE, frozen |-> FALSE]]

\* memoryMappingFromAddress({ address, length }): the closure state, the
\* registry after the registration and the object returned; id stands for
\* the identity of the unmap closure and of its token. The object is the
\* literal { address, length, createArrayBuffer, unmap }: unmap tells that
\* the property is present, frozen what Object.isFrozen answers for it
memoryMappingFromAddress(address, length, id, reg) ==
    LET bufferInfo == [address |-> address, length |-> length] IN
    [closure |-> [address |-> address, length |-> length, mapped |-> TRUE],
     registry |-> registryRegister(reg, id, bufferInfo, id),
     object |-> [id |-> id, address |-> address, length |-> length,
                 unmap |-> TRUE, frozen |-> FALSE]]

NoOp ==
    [op |-> "none", h |-> 0, req |-> Undefined, threw |-> Undefined,
     errno |-> Undefined, mapping |-> Undefined, view |-> Undefined,
     mmapCall |-> Undefined, mmapRes |-> Undefined,
     munmapCall |-> Undefined, munmapRes |-> Undefined,
     steps |-> << >>, fstat |-> Undefined,
     prevFailed |-> FALSE]

\* Reachable when the registered target is the mapping object returned to
\* the caller, in the place of the unmap closure
Reachable_MappingObject(h) == h \in handleRef

\* the unmap closure of h, the registered target, is reachable by the
\* caller: detached, or as the property of a mapping object it holds
Reachable(h) ==
    \/ h \in unmapRef
    \/ h \in handleRef /\ objects[h].unmap

\* the last API call was an unmap of h whose low-level munmap reported an errno
FailedUnmap(h) ==
    /\ lastOp.op = "unmap"
    /\ lastOp.h = h
    /\ IsDefined(lastOp.munmapRes)
    /\ IsDefined(ValueOf(lastOp.munmapRes))

\* unmap reading the address and the length from the mapping object when
\* it runs, in the place of the variables its closure captured
unmap_ObjectFields(h, errno) ==
    /\ h \in HandleIds
    /\ Reachable(h)
    /\ LET state == [handles[h] EXCEPT !.address = objects[h].address,
                                       !.length = objects[h].length]
           out == unmapBody(state, registry, h, errno)
           called == IsDefined(out.munmapCall)
       IN
       /\ handles' = [handles EXCEPT ![h].mapped = out.mapped]
       /\ registry' = out.registry
       /\ munmapOk' = [munmapOk EXCEPT ![h] =
                          IF called /\ ~IsDefined(errno) THEN @ + 1 ELSE @]
       /\ lastOp' = [NoOp EXCEPT !.op = "unmap", !.h = h,
                       !.threw = out.threw,
                       !.munmapCall = out.munmapCall,
                       !.munmapRes = IF called THEN Some(errno) ELSE Undefined,
                       !.prevFailed = FailedUnmap(h)]
       /\ released' = IF IsDefined(out.threw) THEN released ELSE released \cup {h}
    /\ UNCHANGED << objects, handleRef, unmapRef, collected, leaks, origin,
                    registrations, views, lowLevelPageSize >>

\* unmap() of handle h; errno is what the low-level munmap reports if called
unmap(h, errno) ==
    /\ h \in HandleIds
    /\ Reachable(h)
    /\ LET out == unmapBody(handles[h], registry, h, errno)
           called == IsDefined(out.munmapCall)
       IN
       /\ handles' = [handles EXCEPT ![h].mapped = out.mapped]
       /\ registry' = out.registry
       /\ munmapOk' = [munmapOk EXCEPT ![h] =
                          IF called /\ ~IsDefined(errno) THEN @ + 1 ELSE @]
       /\ lastOp' = [NoOp EXCEPT !.op = "unmap", !.h = h,
                       !.threw = out.threw,
                       !.munmapCall = out.munmapCall,
                       !.munmapRes = IF called THEN Some(errno) ELSE Undefined,
                       !.prevFailed = FailedUnmap(h)]
       /\ released' = IF IsDefined(out.threw) THEN released ELSE released \cup {h}
    /\ UNCHANGED << objects, handleRef, unmapRef, collected, leaks, origin,
                    registrations, views, lowLevelPageSize >>

\* createArrayBuffer() of handle h
createArrayBuffer(h) ==
    /\ h \in HandleIds
    /\ h \in handleRef
    /\ LET out == createArrayBufferBody(handles[h]) IN
       lastOp' = [NoOp EXCEPT !.op = "createArrayBuffer", !.h = h,
                    !.threw = out.threw, !.view = out.view,
                    !.prevFailed = FailedUnmap(h)]
    /\ UNCHANGED << handles, objects, registry, handleRef, unmapRef,
                    collected, leaks, origin, munmapOk, released,
                    registrations, views, lowLevelPageSize >>

----------------------------------------------------------------------------
(* mmapFd *)

\* mmapArguments with offset and length exchanged
mmapArguments_Swapped(req) ==
    [address |-> 0,
     length |-> req.offsetInFd,
     prot |-> memoryProtectionFlagsToSyscallValue(req.memoryProtectionFlags),
     flags |-> BitOr(BitOr(0, mappingVisibilityToMmapFlags(req.mappingVisibility)),
                     genericFlagsToMmapFlags(req.genericFlags)),
     fd |-> req.fd,
     offset |-> req.length]

\* mmapArguments asking for one page whatever the length requested
mmapArguments_OnePage(req) ==
    [address |-> 0,
     length |-> determinePageSize,
     prot |-> memoryProtectionFlagsToSyscallValue(req.memoryProtectionFlags),
     flags |-> BitOr(BitOr(0, mappingVisibilityToMmapFlags(req.mappingVisibility)),
                     genericFlagsToMmapFlags(req.genericFlags)),
     fd |-> req.fd,
     offset |-> req.offsetInFd]

\* the arguments mmapFd hands to the low-level mmap
mmapArguments(req) ==
    [address |-> 0,
     length |-> req.length,
     prot |-> memoryProtectionFlagsToSyscallValue(req.memoryProtectionFlags),
     flags |-> BitOr(BitOr(0, mappingVisibilityToMmapFlags(req.mappingVisibility)),
                     genericFlagsToMmapFlags(req.genericFlags)),
     fd |-> req.fd,
     offset |-> req.offsetInFd]

\* the statements of mmapFd in the order of the source; a call executes a
\* prefix of them, up to the one that throws or returns
mmapFdSteps ==
    << "assertMmapParameters", "translate flags", "assertFdIsValid", "mmap",
       "memoryMappingFromAddress" >>

\* the descriptor assertFdIsValid hands to nodeFs.fstatSync, Undefined when
\* it throws before the call
fstatSync(fd) == IF fd < 0 THEN Undefined ELSE Some(fd)

\* mmapFdBody checking the descriptor before the offset and the length
mmapFdBody_FdFirst(req, res, id, reg) ==
    LET paramError == assertMmapParameters(req.offsetInFd, req.length)
        fdError == assertFdIsValid(req.fd)
    IN
    IF IsDefined(fdError)
    THEN [threw |-> fdError, mmapCall |-> Undefined,
          errno |-> Undefined, made |-> Undefined,
          steps |-> << "assertFdIsValid" >>, fstat |-> fstatSync(req.fd)]
    ELSE IF IsDefined(paramError)
    THEN [threw |-> paramError, mmapCall |-> Undefined,
          errno |-> Undefined, made |-> Undefined,
          steps |-> << "assertFdIsValid", "assertMmapParameters" >>,
          fstat |-> fstatSync(req.fd)]
    ELSE IF IsDefined(res.errno)
    THEN [threw |-> Undefined, mmapCall |-> Some(mmapArguments(req)),
          errno |-> res.errno, made |-> Undefined,
          steps |-> << "assertFdIsValid", "assertMmapParameters",
                       "translate flags", "mmap" >>,
          fstat |-> fstatSync(req.fd)]
    ELSE [threw |-> Undefined, mmapCall |-> Some(mmapArguments(req)),
          errno |-> Undefined,
          made |-> Some(memoryMappingFromAddress(ValueOf(res.address),
                                                 req.length, id, reg)),
          steps |-> << "assertFdIsValid", "assertMmapParameters",
                       "translate flags", "mmap", "memoryMappingFromAddress" >>,
          fstat |-> fstatSync(req.fd)]

\* mmapFdBody calling mmap and constructing the mapping before it checks
\* the descriptor
mmapFdBody_ChecksFdLast(req, res, id, reg) ==
    LET paramError == assertMmapParameters(req.offsetInFd, req.length)
        fdError == assertFdIsValid(req.fd)
    IN
    IF IsDefined(paramError)
    THEN [threw |-> paramError, mmapCall |-> Undefined,
          errno |-> Undefined, made |-> Undefined,
          steps |-> SubSeq(mmapFdSteps, 1, 1), fstat |-> Undefined]
    ELSE IF IsDefined(res.errno)
    THEN [threw |-> Undefined, mmapCall |-> Some(mmapArguments(req)),
          errno |-> res.errno, made |-> Undefined,
          steps |-> << "assertMmapParameters", "translate flags", "mmap" >>,
          fstat |-> Undefined]
    ELSE [threw |-> fdError, mmapCall |-> Some(mmapArguments(req)),
          errno |-> Undefined,
          made |-> Some(memoryMappingFromAddress(ValueOf(res.address),
                                                 req.length, id, reg)),
          steps |-> << "assertMmapParameters", "translate flags", "mmap",
                       "memoryMappingFromAddress", "assertFdIsValid" >>,
          fstat |-> fstatSync(req.fd)]

\* mmapFdBody returning an errno of 0 next to the mapping
mmapFdBody_ErrnoZero(req, res, id, reg) ==
    LET paramError == assertMmapParameters(req.offsetInFd, req.length)
        fdError == assertFdIsValid(req.fd)
    IN
    IF IsDefined(paramError)
    THEN [threw |-> paramError, mmapCall |-> Undefined,
          errno |-> Undefined, made |-> Undefined,
          steps |-> SubSeq(mmapFdSteps, 1, 1), fstat |-> Undefined]
    ELSE IF IsDefined(fdError)
    THEN [threw |-> fdError, mmapCall |-> Undefined,
          errno |-> Undefined, made |-> Undefined,
          steps |-> SubSeq(mmapFdSteps, 1, 3), fstat |-> fstatSync(req.fd)]
    ELSE IF IsDefined(res.errno)
    THEN [threw |-> Undefined, mmapCall |-> Some(mmapArguments(req)),
          errno |-> res.errno, made |-> Undefined,
          steps |-> SubSeq(mmapFdSteps, 1, 4), fstat |-> fstatSync(req.fd)]
    ELSE [threw |-> Undefined, mmapCall |-> Some(mmapArguments(req)),
          errno |-> Some(0),
          made |-> Some(memoryMappingFromAddress(ValueOf(res.address),
                                                 req.length, id, reg)),
          steps |-> mmapFdSteps, fstat |-> fstatSync(req.fd)]

\* mmapFdBody throwing the errno of mmap, as unmap does with that of munmap
mmapFdBody_Throws(req, res, id, reg) ==
    LET paramError == assertMmapParameters(req.offsetInFd, req.length)
        fdError == assertFdIsValid(req.fd)
    IN
    IF IsDefined(paramError)
    THEN [threw |-> paramError, mmapCall |-> Undefined,
          errno |-> Undefined, made |-> Undefined,
          steps |-> SubSeq(mmapFdSteps, 1, 1), fstat |-> Undefined]
    ELSE IF IsDefined(fdError)
    THEN [threw |-> fdError, mmapCall |-> Undefined,
          errno |-> Undefined, made |-> Undefined,
          steps |-> SubSeq(mmapFdSteps, 1, 3), fstat |-> fstatSync(req.fd)]
    ELSE IF IsDefined(res.errno)
    THEN [threw |-> Some(Error("mmap failed with errno ", res.errno, "")),
          mmapCall |-> Some(mmapArguments(req)),
          errno |-> Undefined, made |-> Undefined,
          steps |-> SubSeq(mmapFdSteps, 1, 4), fstat |-> fstatSync(req.fd)]
    ELSE [threw |-> Undefined, mmapCall |-> Some(mmapArguments(req)),
          errno |-> Undefined,
          made |-> Some(memoryMappingFromAddress(ValueOf(res.address),
                                                 req.length, id, reg)),
          steps |-> mmapFdSteps, fstat |-> fstatSync(req.fd)]

\* mmapFd(req), as a function of the request, of what the low-level mmap
\* reports if it is called, of the identity of the next closure and of the
\* registry: what it throws or returns and the mapping it constructs
mmapFdBody(req, res, id, reg) ==
    LET paramError == assertMmapParameters(req.offsetInFd, req.length)
        fdError == assertFdIsValid(req.fd)
    IN
    IF IsDefined(paramError)
    THEN [threw |-> paramError, mmapCall |-> Undefined,
          errno |-> Undefined, made |-> Undefined,
          steps |-> SubSeq(mmapFdSteps, 1, 1), fstat |-> Undefined]
    ELSE IF IsDefined(fdError)
    THEN [threw |-> fdError, mmapCall |-> Undefined,
          errno |-> Undefined, made |-> Undefined,
          steps |-> SubSeq(mmapFdSteps, 1, 3), fstat |-> fstatSync(req.fd)]
    ELSE IF IsDefined(res.errno)
    THEN [threw |-> Undefined, mmapCall |-> Some(mmapArguments(req)),
          errno |-> res.errno, made |-> Undefined,
          steps |-> SubSeq(mmapFdSteps, 1, 4), fstat |-> fstatSync(req.fd)]
    ELSE [threw |-> Undefined, mmapCall |-> Some(mmapArguments(req)),
          errno |-> Undefined,
          made |-> Some(memoryMappingFromAddress(ValueOf(res.address),
                                                 req.length, id, reg)),
          steps |-> mmapFdSteps, fstat |-> fstatSync(req.fd)]

\* mmapFd(req); res is what the low-level mmap reports if it is called
mmapFd(req, res) ==
    LET id == Len(handles) + 1
        out == mmapFdBody(req, res, id, registry)
        called == IsDefined(out.mmapCall)
    IN
    /\ lastOp' = [NoOp EXCEPT !.op = "mmapFd", !.req = Some(req),
                    !.h = IF IsDefined(out.made) THEN id ELSE 0,
                    !.threw = out.threw,
                    !.errno = out.errno,
                    !.mapping = IF IsDefined(out.made)
                                THEN Some(ValueOf(out.made).object)
                                ELSE Undefined,
                    !.mmapCall = out.mmapCall,
                    !.mmapRes = IF called THEN Some(res) ELSE Undefined,
                    !.steps = out.steps,
                    !.fstat = out.fstat]
    /\ IF IsDefined(out.made)
       THEN LET made == ValueOf(out.made) IN
            /\ handles' = Append(handles, made.closure)
            /\ registry' = made.registry
            /\ objects' = Append(objects, made.object)
            /\ leaks' = Append(leaks, << >>)
            /\ munmapOk' = Append(munmapOk, 0)
            /\ origin' = Append(origin, [address |-> ValueOf(res.address),
                                         length |-> req.length])
            /\ handleRef' = handleRef \cup {id}
            /\ registrations' = registrations + Len(made.registry) - Len(registry)
       ELSE UNCHANGED << handles, registry, objects, leaks, munmapOk,
                         origin, handleRef, registrations >>
    /\ UNCHANGED << unmapRef, collected, released, views, lowLevelPageSize >>

----------------------------------------------------------------------------
(* The caller's references and the garbage collector *)

\* const u = mapping.unmap: the caller keeps the unmap function by itself
KeepUnmap(h) ==
    /\ h \in handleRef
    /\ objects[h].unmap
    /\ h \notin unmapRef
    /\ unmapRef' = unmapRef \cup {h}
    /\ UNCHANGED << handles, objects, registry, handleRef, collected,
                    leaks, origin, munmapOk, released, lastOp,
                    registrations, views, lowLevelPageSize >>

\* the caller drops its last reference to the mapping object
DropMapping(h) ==
    /\ h \in handleRef
    /\ handleRef' = handleRef \ {h}
    /\ UNCHANGED << handles, objects, registry, unmapRef, collected,
                    leaks, origin, munmapOk, released, lastOp,
                    registrations, views, lowLevelPageSize >>

\* the caller drops its detached reference to the unmap function
DropUnmap(h) ==
    /\ h \in unmapRef
    /\ unmapRef' = unmapRef \ {h}
    /\ UNCHANGED << handles, objects, registry, handleRef, collected,
                    leaks, origin, munmapOk, released, lastOp,
                    registrations, views, lowLevelPageSize >>

\* const buffer = mapping.createArrayBuffer(): the caller retains the
\* ArrayBuffer the last call returned
KeepView(h) ==
    /\ h \in handleRef
    /\ lastOp.op = "createArrayBuffer"
    /\ lastOp.h = h
    /\ IsDefined(lastOp.view)
    /\ views' = views \cup {[h |-> h, buffer |-> ValueOf(lastOp.view)]}
    /\ UNCHANGED << handles, objects, registry, handleRef, unmapRef, collected,
                    leaks, origin, munmapOk, released, registrations, lastOp, lowLevelPageSize >>

\* delete object.unmap in strict mode: a TypeError for a frozen object,
\* the removal of the property otherwise
deleteUnmap(object) ==
    IF object.frozen
    THEN [threw |-> Some(Error("Cannot delete property ", Undefined, "")),
          object |-> object]
    ELSE [threw |-> Undefined, object |-> [object EXCEPT !.unmap = FALSE]]

\* delete mapping.unmap, by the caller
DeleteUnmap(h) ==
    /\ h \in handleRef
    /\ objects[h].unmap
    /\ LET out == deleteUnmap(objects[h]) IN
       /\ objects' = [objects EXCEPT ![h] = out.object]
       /\ lastOp' = [NoOp EXCEPT !.op = "delete unmap", !.h = h,
                       !.threw = out.threw]
    /\ UNCHANGED << handles, registry, handleRef, unmapRef, collected, leaks,
                    origin, munmapOk, released, registrations, views, lowLevelPageSize >>

\* object.address = value or object.length = value in strict mode: a
\* TypeError for a frozen object, the assignment otherwise
writeField(object, field, value) ==
    IF object.frozen
    THEN [threw |-> Some(Error("Cannot assign to read only property ", Undefined, "")),
          object |-> object]
    ELSE [threw |-> Undefined,
          object |-> IF field = "address"
                     THEN [object EXCEPT !.address = value]
                     ELSE [object EXCEPT !.length = value]]

\* mapping.address = value or mapping.length = value, by the caller
WriteField(h, field, value) ==
    /\ h \in handleRef
    /\ LET out == writeField(objects[h], field, value) IN
       /\ objects' = [objects EXCEPT ![h] = out.object]
       /\ lastOp' = [NoOp EXCEPT !.op = "write " \o field, !.h = h,
                       !.threw = out.threw]
    /\ UNCHANGED << handles, registry, handleRef, unmapRef, collected, leaks,
                    origin, munmapOk, released, registrations, views,
                    lowLevelPageSize >>

\* the errors the callback throws for the cells of a reclaimed target
RECURSIVE cleanup(_, _)
cleanup(reg, target) ==
    IF reg = << >> THEN << >>
    ELSE IF Head(reg).target = target
    THEN << registryCallback(Head(reg).heldValue) >> \o cleanup(Tail(reg), target)
    ELSE cleanup(Tail(reg), target)

\* the collector reclaims the unmap closure of h; the registry drops every
\* cell whose target it was and invokes the callback with its held value
Reclaim(h) ==
    /\ h \in HandleIds
    /\ ~Reachable(h)
    /\ h \notin collected
    /\ collected' = collected \cup {h}
    /\ registry' = SelectSeq(registry, LAMBDA cell : cell.target # h)
    /\ leaks' = [leaks EXCEPT ![h] = @ \o cleanup(registry, h)]
    /\ UNCHANGED << handles, objects, handleRef, unmapRef, origin,
                    munmapOk, released, lastOp,
                    registrations, views, lowLevelPageSize >>

----------------------------------------------------------------------------
(* Inputs *)

ReadOnly == [PROT_READ |-> TRUE, PROT_WRITE |-> FALSE, PROT_EXEC |-> FALSE]

\* the requests of the handle life cycle: valid ones, of two pages
Requests ==
    [fd : OpenFds,
     mappingVisibility : {"MAP_PRIVATE"},
     memoryProtectionFlags : {ReadOnly},
     genericFlags : {<< >>},
     offsetInFd : {0},
     length : {2 * determinePageSize}]

----------------------------------------------------------------------------
(* Specification *)

Init ==
    /\ handles = << >>
    /\ objects = << >>
    /\ registry = << >>
    /\ handleRef = {}
    /\ unmapRef = {}
    /\ collected = {}
    /\ leaks = << >>
    /\ origin = << >>
    /\ munmapOk = << >>
    /\ released = {}
    /\ registrations = 0
    /\ views = {}
    /\ lowLevelPageSize = determinePageSize
    /\ lastOp = NoOp

CallMmapFd ==
    \E req \in Requests, res \in MmapResults :
        mmapFd(req, res) /\ Len(handles') <= MaxHandles

CallUnmap == \E h \in HandleIds, errno \in MunmapResults : unmap(h, errno)

CallCreateArrayBuffer == \E h \in HandleIds : createArrayBuffer(h)

CallerKeepUnmap == \E h \in HandleIds : KeepUnmap(h)

CallerDropMapping == \E h \in HandleIds : DropMapping(h)

CallerDropUnmap == \E h \in HandleIds : DropUnmap(h)

Collect == \E h \in HandleIds : Reclaim(h)

Next ==
    \/ CallMmapFd
    \/ CallUnmap
    \/ CallCreateArrayBuffer
    \/ CallerKeepUnmap
    \/ CallerDropMapping
    \/ CallerDropUnmap
    \/ Collect

Spec == Init /\ [][Next]_vars

\* reclamation eventually runs for a closure that stays unreachable
SpecLive ==
    Init /\ [][Next]_vars /\ \A h \in 1..MaxHandles : WF_vars(Reclaim(h))

----------------------------------------------------------------------------
(* Specification of the requests: every combination of descriptor, offset *)
(* and length, over a shorter handle life cycle                            *)

MaxRequestHandles == 1

Fds == {-1, 3, 9}

Offsets == {0 - determinePageSize, 0, 100, determinePageSize}

Lengths == {0 - determinePageSize, 0, determinePageSize, 2 * determinePageSize}

AllRequests ==
    [fd : Fds,
     mappingVisibility : {"MAP_PRIVATE"},
     memoryProtectionFlags : {ReadOnly},
     genericFlags : {<< >>},
     offsetInFd : Offsets,
     length : Lengths]

CallMmapFdAny ==
    \E req \in AllRequests, res \in MmapResults :
        mmapFd(req, res) /\ Len(handles') <= MaxRequestHandles

NextRequests ==
    \/ CallMmapFdAny
    \/ CallUnmap
    \/ CallCreateArrayBuffer
    \/ CallerDropMapping
    \/ Collect

SpecRequests == Init /\ [][NextRequests]_vars

----------------------------------------------------------------------------
(* Specification of the flags: every combination of protection flags,      *)
(* visibility and advisory flags, present or absent, true or false; the    *)
(* low-level mmap is called and reports an errno                           *)

AllProtections == [PROT_READ : BOOLEAN, PROT_WRITE : BOOLEAN, PROT_EXEC : BOOLEAN]

Visibilities == {"MAP_PRIVATE", "MAP_SHARED"}

GenericFlagKeys == {"MAP_32BIT", "MAP_LOCKED", "MAP_NORESERVE"}

\* Partial<TGenericMmapFlags>: any of the keys, each true or false
AllGenericFlags == UNION {[keys -> BOOLEAN] : keys \in SUBSET GenericFlagKeys}

FlagRequests ==
    [fd : OpenFds,
     mappingVisibility : Visibilities,
     memoryProtectionFlags : AllProtections,
     genericFlags : AllGenericFlags,
     offsetInFd : {0},
     length : {determinePageSize}]

FailingMmapResults == {res \in MmapResults : IsDefined(res.errno)}

CallMmapFdFlags ==
    \E req \in FlagRequests, res \in FailingMmapResults : mmapFd(req, res)

NextFlags == CallMmapFdFlags

SpecFlags == Init /\ [][NextFlags]_vars

----------------------------------------------------------------------------
(* Specification of the injected interface: createConvenienceApi is given  *)
(* a low-level interface whose determinePageSize returns one of several    *)
(* page sizes, as the tests do with mmap and munmap                        *)

InjectedPageSizes ==
    {determinePageSize, 2 * determinePageSize, 4 * determinePageSize}

InjectedOffsets == Offsets \cup InjectedPageSizes

InjectedRequests ==
    [fd : Fds,
     mappingVisibility : {"MAP_PRIVATE"},
     memoryProtectionFlags : {ReadOnly},
     genericFlags : {<< >>},
     offsetInFd : InjectedOffsets,
     length : {0, determinePageSize, 2 * determinePageSize}]

InitInjected ==
    /\ handles = << >>
    /\ objects = << >>
    /\ registry = << >>
    /\ handleRef = {}
    /\ unmapRef = {}
    /\ collected = {}
    /\ leaks = << >>
    /\ origin = << >>
    /\ munmapOk = << >>
    /\ released = {}
    /\ registrations = 0
    /\ views = {}
    /\ lowLevelPageSize \in InjectedPageSizes
    /\ lastOp = NoOp

CallMmapFdInjected ==
    \E req \in InjectedRequests, res \in FailingMmapResults : mmapFd(req, res)

NextInjected == CallMmapFdInjected

SpecInjected == InitInjected /\ [][NextInjected]_vars

----------------------------------------------------------------------------
(* Specification of the caller: it retains the ArrayBuffers it is given    *)
(* and deletes properties of the mapping object; the operating system      *)
(* returns no address that lies in a live mapping                          *)

MaxCallerHandles == 2

\* the operating system has the range of handle h mapped: no munmap of it
\* has reported success
OsMapped(h) == munmapOk[h] = 0

\* what the low-level mmap can report: an errno, or an address no live
\* mapping occupies
FreshMmapResults ==
    {res \in MmapResults :
        IsDefined(res.address) =>
            \A h \in HandleIds :
                OsMapped(h) => origin[h].address # ValueOf(res.address)}

CallMmapFdFresh ==
    \E req \in Requests, res \in FreshMmapResults :
        mmapFd(req, res) /\ Len(handles') <= MaxCallerHandles

CallerKeepView == \E h \in HandleIds : KeepView(h)

CallerDeleteUnmap == \E h \in HandleIds : DeleteUnmap(h)

NextCaller ==
    \/ CallMmapFdFresh
    \/ CallUnmap
    \/ CallCreateArrayBuffer
    \/ CallerKeepView
    \/ CallerDeleteUnmap
    \/ CallerDropMapping
    \/ Collect

SpecCaller == Init /\ [][NextCaller]_vars

----------------------------------------------------------------------------
(* Specification of the writes: the caller assigns to the address and the   *)
(* length of the mapping object it was given                               *)

MaxWriteHandles == 1

\* the values the caller assigns
WrittenValues == {0, determinePageSize}

CallMmapFdWrites ==
    \E req \in Requests, res \in MmapResults :
        mmapFd(req, res) /\ Len(handles') <= MaxWriteHandles

CallerWriteField ==
    \E h \in HandleIds, field \in {"address", "length"}, value \in WrittenValues :
        WriteField(h, field, value)

NextWrites ==
    \/ CallMmapFdWrites
    \/ CallUnmap
    \/ CallerWriteField
    \/ CallerKeepUnmap
    \/ CallerDropMapping
    \/ CallerDropUnmap
    \/ Collect

SpecWrites == Init /\ [][NextWrites]_vars

----------------------------------------------------------------------------
(* Specification of the leaks: the handle life cycle with every way the     *)
(* caller has to lose the unmap closure, next to calls of mmapFd that      *)
(* throw or return an errno                                                *)

MaxLeakHandles == 1

LeakRequests ==
    [fd : Fds,
     mappingVisibility : {"MAP_PRIVATE"},
     memoryProtectionFlags : {ReadOnly},
     genericFlags : {<< >>},
     offsetInFd : {0, 100},
     length : {0, 2 * determinePageSize}]

CallMmapFdLeaks ==
    \E req \in LeakRequests, res \in MmapResults :
        mmapFd(req, res) /\ Len(handles') <= MaxLeakHandles

NextLeaks ==
    \/ CallMmapFdLeaks
    \/ CallUnmap
    \/ CallerKeepUnmap
    \/ CallerDeleteUnmap
    \/ CallerDropMapping
    \/ CallerDropUnmap
    \/ Collect

SpecLeaks == Init /\ [][NextLeaks]_vars

----------------------------------------------------------------------------
(* Properties *)

Registered(h) == \E i \in 1..Len(registry) : registry[i].token = h

Abandoned(h) == h \in HandleIds /\ ~Reachable(h)

LeakOf(h) ==
    MemoryMappedBufferGarbageCollectedWithoutUnmapError(origin[h])

\* C1: a release whose low-level unmap reports success, on a handle no
\* release has succeeded on, succeeds; every release after a successful one
\* faults with "memory mapping already unmapped"
C1_ReleaseTwice ==
    [][\A h \in HandleIds : \A errno \in MunmapResults :
          unmap(h, errno) =>
            /\ (h \notin released /\ ~IsDefined(errno))
                  => (lastOp'.threw = Undefined /\ h \in released')
            /\ (h \in released)
                  => lastOp'.threw = Some(AlreadyUnmappedError)]_vars

C1_Witness ==
    /\ lastOp.op = "unmap"
    /\ lastOp.h \in released
    /\ lastOp.threw = Some(AlreadyUnmappedError)

\* C2: once release has succeeded on a handle, every byte-view access on it
\* faults with the already-unmapped error and returns no view
C2_ViewAfterRelease ==
    (lastOp.op = "createArrayBuffer" /\ lastOp.h \in released)
        => (lastOp.threw = Some(AlreadyUnmappedError) /\ lastOp.view = Undefined)

C2_Witness ==
    /\ lastOp.op = "createArrayBuffer"
    /\ lastOp.h \in released
    /\ IsDefined(lastOp.threw)

\* C3: for every handle at most one low-level unmap invocation reports
\* success, whatever release calls are made on it
C3_UnmappedAtMostOnce ==
    \A h \in HandleIds : munmapOk[h] <= 1

C3_Witness ==
    /\ lastOp.op = "unmap"
    /\ IsDefined(lastOp.threw)
    /\ munmapOk[lastOp.h] = 1

\* C4: a handle that is unreachable and was not released is eventually
\* reported by a leak fault carrying the address mmap returned and the
\* length requested
C4_LeakEventuallyReported ==
    \A h \in 1..MaxHandles :
        (Abandoned(h) /\ h \notin released)
            ~> (h \in HandleIds /\ \E i \in 1..Len(leaks[h]) : leaks[h][i] = LeakOf(h))

C4_Witness ==
    \E h \in HandleIds :
        /\ Abandoned(h)
        /\ h \notin released
        /\ leaks[h] = << LeakOf(h) >>

\* C5: no handle gives rise to more than one leak fault, also after failed
\* release attempts
C5_LeakAtMostOnce ==
    \A h \in HandleIds : Len(leaks[h]) <= 1

C5_Witness ==
    \E h \in HandleIds : FailedUnmap(h) /\ Len(leaks[h]) = 1

\* C6: no leak fault is ever raised for a handle whose release succeeded
C6_NoFalseLeak ==
    \A h \in HandleIds : h \in released => leaks[h] = << >>

C6_Witness ==
    \E h \in HandleIds : h \in released /\ h \in collected /\ leaks[h] = << >>

\* C7: a release whose low-level unmap reports an errno faults with
\* "munmap failed with errno <errno>" and leaves the registry as it was; if
\* the handle is then abandoned a leak fault is eventually raised for it
C7_FailedReleaseStep ==
    \A h \in HandleIds : \A errno \in MunmapResults :
        (unmap(h, errno) /\ lastOp'.munmapRes = Some(errno) /\ IsDefined(errno))
            => /\ lastOp'.threw = Some(MunmapFailedError(ValueOf(errno)))
               /\ Registered(h)
               /\ registry' = registry

C7_FailedRelease ==
    /\ [][C7_FailedReleaseStep]_vars
    /\ \A h \in 1..MaxHandles :
          (FailedUnmap(h) /\ Abandoned(h)) ~> (h \in HandleIds /\ leaks[h] # << >>)

C7_Witness ==
    \E h \in HandleIds :
        /\ FailedUnmap(h)
        /\ lastOp.threw = Some(MunmapFailedError(ValueOf(ValueOf(lastOp.munmapRes))))
        /\ Abandoned(h)
        /\ leaks[h] # << >>

\* C8: after a release whose low-level unmap reported an errno the handle is
\* still mapped: the next byte-view access on it succeeds and the next
\* release on it invokes the low-level unmap again
C8_StillMappedAfterFailure ==
    /\ \A h \in HandleIds : FailedUnmap(h) => handles[h].mapped
    /\ lastOp.prevFailed =>
          /\ lastOp.op = "createArrayBuffer"
                => (lastOp.threw = Undefined /\ IsDefined(lastOp.view))
          /\ lastOp.op = "unmap"
                => (IsDefined(lastOp.munmapCall)
                    /\ lastOp.threw # Some(AlreadyUnmappedError))

C8_Witness ==
    /\ lastOp.prevFailed
    /\ lastOp.op = "unmap"
    /\ IsDefined(lastOp.munmapCall)
    /\ lastOp.threw = Undefined

\* the request satisfies the preconditions of mmapFd
ValidRequest(req) ==
    /\ req.offsetInFd % determinePageSize = 0
    /\ req.length > 0
    /\ req.fd >= 0
    /\ req.fd \in OpenFds

\* C9: for a request with an aligned offset, a positive length and a valid
\* descriptor mmapFd returns exactly one of errno and mapping, and the
\* length of the mapping is the length requested
C9_ExactlyOneOutcome ==
    (lastOp.op = "mmapFd" /\ ValidRequest(ValueOf(lastOp.req)))
        => /\ lastOp.threw = Undefined
           /\ IsDefined(lastOp.errno) # IsDefined(lastOp.mapping)
           /\ IsDefined(lastOp.mapping)
                 => ValueOf(lastOp.mapping).length = ValueOf(lastOp.req).length

C9_Witness ==
    /\ lastOp.op = "mmapFd"
    /\ ValidRequest(ValueOf(lastOp.req))
    /\ ValueOf(lastOp.req).offsetInFd = determinePageSize
    /\ IsDefined(lastOp.mapping)
    /\ ValueOf(lastOp.mapping).length = 2 * determinePageSize

\* C10: when the low-level map reports an errno mmapFd does not throw, it
\* returns that errno and no mapping, and it constructs and registers nothing
C10_MapErrnoStep ==
    (/\ lastOp'.op = "mmapFd"
     /\ IsDefined(lastOp'.mmapRes)
     /\ IsDefined(ValueOf(lastOp'.mmapRes).errno)
     /\ mmapFd(ValueOf(lastOp'.req), ValueOf(lastOp'.mmapRes)))
        => /\ lastOp'.threw = Undefined
           /\ lastOp'.errno = ValueOf(lastOp'.mmapRes).errno
           /\ lastOp'.mapping = Undefined
           /\ handles' = handles
           /\ objects' = objects
           /\ registry' = registry

C10_MapErrno == [][C10_MapErrnoStep]_vars

C10_Witness ==
    /\ lastOp.op = "mmapFd"
    /\ IsDefined(lastOp.mmapRes)
    /\ lastOp.errno = Some(22)
    /\ lastOp.mapping = Undefined
    /\ Len(handles) = 1

\* the Error of assertMmapParameters for an offset that is no multiple of
\* the page size
AlignmentError ==
    Error("offsetInFd must be multiple of page size ", Some(determinePageSize), "")

\* the Error of assertMmapParameters for a length that is not positive
LengthError == Error("length must be greater than zero", Undefined, "")

\* C11: for a request whose offset is no multiple of the page size mmapFd
\* throws "offsetInFd must be multiple of page size <pageSize>" and the
\* low-level mmap is not invoked
C11_UnalignedOffset ==
    (lastOp.op = "mmapFd"
     /\ ValueOf(lastOp.req).offsetInFd % determinePageSize # 0)
        => /\ lastOp.threw = Some(AlignmentError)
           /\ lastOp.mmapCall = Undefined
           /\ lastOp.mmapRes = Undefined

C11_Witness ==
    /\ lastOp.op = "mmapFd"
    /\ ValueOf(lastOp.req).offsetInFd = 100
    /\ ValueOf(lastOp.req).length <= 0
    /\ lastOp.threw = Some(AlignmentError)

\* C12 as stated: for a request whose length is not positive, whatever its
\* other fields, mmapFd throws "length must be greater than zero" and the
\* low-level mmap is not invoked
C12_NonPositiveLength ==
    (lastOp.op = "mmapFd" /\ ValueOf(lastOp.req).length <= 0)
        => /\ lastOp.threw = Some(LengthError)
           /\ lastOp.mmapCall = Undefined

\* C12, amended: for a request whose length is not positive and whose
\* offset is a multiple of the page size, whatever its descriptor, mmapFd
\* throws "length must be greater than zero"; with an offset that is no
\* multiple it throws the alignment error; in both cases the low-level mmap
\* is not invoked
C12_NonPositiveLengthAligned ==
    (lastOp.op = "mmapFd" /\ ValueOf(lastOp.req).length <= 0)
        => /\ lastOp.threw =
                 IF ValueOf(lastOp.req).offsetInFd % determinePageSize = 0
                 THEN Some(LengthError)
                 ELSE Some(AlignmentError)
           /\ lastOp.mmapCall = Undefined
           /\ lastOp.mmapRes = Undefined

C12_Witness ==
    /\ lastOp.op = "mmapFd"
    /\ ValueOf(lastOp.req).length = 0
    /\ ValueOf(lastOp.req).offsetInFd = determinePageSize
    /\ ValueOf(lastOp.req).fd = -1
    /\ lastOp.threw = Some(LengthError)

\* C13: for a request with an aligned offset and a positive length whose
\* descriptor is negative or fails fstat, mmapFd throws an error whose
\* message starts with "invalid file descriptor <fd>" and the low-level
\* mmap is not invoked
C13_InvalidDescriptor ==
    (/\ lastOp.op = "mmapFd"
     /\ ValueOf(lastOp.req).offsetInFd % determinePageSize = 0
     /\ ValueOf(lastOp.req).length > 0
     /\ (ValueOf(lastOp.req).fd < 0 \/ ValueOf(lastOp.req).fd \notin OpenFds))
        => /\ IsDefined(lastOp.threw)
           /\ ValueOf(lastOp.threw).prefix = "invalid file descriptor "
           /\ ValueOf(lastOp.threw).value = Some(ValueOf(lastOp.req).fd)
           /\ lastOp.mmapCall = Undefined
           /\ lastOp.mmapRes = Undefined

C13_Witness ==
    /\ lastOp.op = "mmapFd"
    /\ ValueOf(lastOp.req).fd = 9
    /\ lastOp.threw = Some(Error("invalid file descriptor ", Some(9), ", fstat failed"))
    /\ lastOp.mmapCall = Undefined

\* C14: a call of mmapFd invokes the low-level mmap at most once, and the
\* number of register calls ever made on the registry is the number of
\* mappings mmapFd has returned
C14_OneMapOneRegistration ==
    /\ lastOp.op = "mmapFd" => Len(lastOp.mmapCall) <= 1
    /\ (lastOp.op = "mmapFd" /\ IsDefined(lastOp.mapping))
          => Len(lastOp.mmapCall) = 1
    /\ registrations = Len(objects)

C14_Witness ==
    /\ lastOp.op = "mmapFd"
    /\ IsDefined(lastOp.errno)
    /\ Len(lastOp.mmapCall) = 1
    /\ Len(objects) = 1
    /\ registrations = 1

\* C15: the address of the mapping object is the address the low-level mmap
\* returned, before a release, after a release that failed and after a
\* release that succeeded
C15_AddressKept ==
    /\ \A h \in HandleIds : objects[h].address = origin[h].address
    /\ (lastOp.op = "mmapFd" /\ IsDefined(lastOp.mapping))
          => ValueOf(lastOp.mapping).address
                = ValueOf(ValueOf(lastOp.mmapRes).address)

C15_Witness ==
    \E h \in HandleIds :
        /\ lastOp.op = "unmap"
        /\ lastOp.h = h
        /\ lastOp.prevFailed
        /\ h \in released
        /\ objects[h].address = origin[h].address
        /\ objects[h].address \in Addresses

\* the number a sequence of digits in base 16 denotes
RECURSIVE FromHex(_)
FromHex(digits) ==
    IF digits = << >> THEN 0
    ELSE 16 * FromHex(SubSeq(digits, 1, Len(digits) - 1)) + digits[Len(digits)]

Usable(view) ==
    \E g \in HandleIds :
        /\ OsMapped(g)
        /\ origin[g].address = view.buffer.address
        /\ view.buffer.byteLength <= origin[g].length

\* C17: no ArrayBuffer obtained from a mapping is usable while that mapping
\* is unmapped, those obtained before the release included
C17_NoViewWhileUnmapped ==
    \A view \in views : ~handles[view.h].mapped => ~Usable(view)

\* C20: the mapping object mmapFd returns is frozen: delete mapping.unmap
\* throws and the property stays
C20_MappingFrozen ==
    /\ \A h \in HandleIds : objects[h].frozen /\ objects[h].unmap
    /\ lastOp.op = "delete unmap" => IsDefined(lastOp.threw)

\* C18: the error unmap throws when munmap reports an errno and the error
\* it throws on an unmapped handle never have the same message, whatever
\* the handle and the errno
C18_FaultsDistinct ==
    /\ \A errno \in Errnos : MunmapFailedError(errno) # AlreadyUnmappedError
    /\ \A h \in HandleIds :
          FailedUnmap(h) =>
             /\ IsDefined(lastOp.threw)
             /\ lastOp.threw # Some(AlreadyUnmappedError)
    /\ (lastOp.op = "unmap" /\ lastOp.h \in released /\ IsDefined(lastOp.threw))
          => /\ lastOp.threw = Some(AlreadyUnmappedError)
             /\ \A errno \in Errnos :
                   lastOp.threw # Some(MunmapFailedError(errno))

C18_Witness ==
    \E h \in HandleIds : \E g \in HandleIds :
        /\ FailedUnmap(h)
        /\ lastOp.threw = Some(MunmapFailedError(12))
        /\ g \in released
        /\ g # h

\* byte i of the file behind the descriptor: the pattern i mod 256
FileByte(i) == i % 256

\* the byte read at index k of an ArrayBuffer over [address, address +
\* byteLength) when the operating system has mapped the file from offset
\* os.offset on at [os.address, os.address + os.length): Undefined where
\* the read is outside the buffer, the mapping or the file
ReadByte(buffer, k, os) ==
    LET a == buffer.address + k IN
    IF /\ 0 <= k /\ k < buffer.byteLength
       /\ os.address <= a /\ a < os.address + os.length
       /\ os.offset + (a - os.address) >= 0
    THEN Some(FileByte(os.offset + (a - os.address)))
    ELSE Undefined

\* the indices read of a view of n bytes: its ends and the neighbours of
\* the multiples of 256 and of the page size
ViewOffsets(n) ==
    {0, 1, 255, 256, determinePageSize - 1, determinePageSize, n - 1}
        \cap (0..(n - 1))

\* C19: the file holding i mod 256 at byte i, a mapping mmapFd returns for
\* an offset o >= 0 and a length n gives an ArrayBuffer of n bytes whose
\* byte k is (o + k) mod 256
C19_ContentFidelity ==
    (lastOp.op = "mmapFd" /\ IsDefined(lastOp.mapping)
     /\ ValueOf(lastOp.req).offsetInFd >= 0)
        => LET o == ValueOf(lastOp.req).offsetInFd
               n == ValueOf(lastOp.req).length
               os == [address |-> ValueOf(ValueOf(lastOp.mmapRes).address),
                      length |-> ValueOf(lastOp.mmapCall).length,
                      offset |-> ValueOf(lastOp.mmapCall).offset]
               out == createArrayBufferBody(handles[lastOp.h])
           IN  /\ out.threw = Undefined
               /\ ValueOf(out.view).byteLength = n
               /\ \A k \in ViewOffsets(n) :
                     ReadByte(ValueOf(out.view), k, os) = Some((o + k) % 256)

C19_Witness ==
    /\ lastOp.op = "mmapFd"
    /\ IsDefined(lastOp.mapping)
    /\ ValueOf(lastOp.req).offsetInFd = determinePageSize
    /\ ValueOf(lastOp.req).length = 2 * determinePageSize
    /\ ReadByte(ValueOf(createArrayBufferBody(handles[lastOp.h]).view),
                2 * determinePageSize - 1,
                [address |-> ValueOf(ValueOf(lastOp.mmapRes).address),
                 length |-> ValueOf(lastOp.mmapCall).length,
                 offset |-> ValueOf(lastOp.mmapCall).offset]) = Some(255)

\* the value of a bit when the flag is set
BitIf(set, bit) == IF set THEN bit ELSE 0

\* C21: for each of the 8 combinations of PROT_READ, PROT_WRITE and
\* PROT_EXEC the translator returns 0x1 for read, 0x2 for write and 0x4 for
\* execute, or-ed for the fields that are true, and 0 when none is
C21_ProtectionBits ==
    lastOp.op = "mmapFd"
        => LET flags == ValueOf(lastOp.req).memoryProtectionFlags
               bits == BitIf(flags.PROT_READ, 1) + BitIf(flags.PROT_WRITE, 2)
                          + BitIf(flags.PROT_EXEC, 4)
           IN  /\ memoryProtectionFlagsToSyscallValue(flags) = bits
               /\ IsDefined(lastOp.mmapCall)
               /\ ValueOf(lastOp.mmapCall).prot = bits

C21_Witness ==
    /\ lastOp.op = "mmapFd"
    /\ ValueOf(lastOp.req).memoryProtectionFlags
          = [PROT_READ |-> TRUE, PROT_WRITE |-> FALSE, PROT_EXEC |-> TRUE]
    /\ ValueOf(lastOp.mmapCall).prot = 5

\* C22: the flags handed to the low-level mmap are 0x02 for MAP_PRIVATE or
\* 0x03 for MAP_SHARED, or-ed with 0x40, 0x2000 and 0x4000 for exactly
\* those of MAP_32BIT, MAP_LOCKED and MAP_NORESERVE that are present and
\* true
C22_MmapFlags ==
    lastOp.op = "mmapFd"
        => LET req == ValueOf(lastOp.req)
               g == req.genericFlags
               Set(key) == key \in DOMAIN g /\ g[key]
               bits == (IF req.mappingVisibility = "MAP_PRIVATE" THEN 2 ELSE 3)
                          + BitIf(Set("MAP_32BIT"), 64)
                          + BitIf(Set("MAP_LOCKED"), 8192)
                          + BitIf(Set("MAP_NORESERVE"), 16384)
           IN  /\ IsDefined(lastOp.mmapCall)
               /\ ValueOf(lastOp.mmapCall).flags = bits

C22_Witness ==
    /\ lastOp.op = "mmapFd"
    /\ ValueOf(lastOp.req).mappingVisibility = "MAP_SHARED"
    /\ DOMAIN ValueOf(lastOp.req).genericFlags = {"MAP_LOCKED", "MAP_NORESERVE"}
    /\ ValueOf(lastOp.req).genericFlags["MAP_LOCKED"] = FALSE
    /\ ValueOf(lastOp.req).genericFlags["MAP_NORESERVE"] = TRUE
    /\ ValueOf(lastOp.mmapCall).flags = 16387

\* C23: determinePageSize of the Linux implementation returns 4096, and the
\* page size mmapFd checks the offset against and names in the alignment
\* error is the one the injected low-level interface reports
C23_PageSize ==
    /\ determinePageSize = 4096
    /\ lastOp.op = "mmapFd"
          => LET o == ValueOf(lastOp.req).offsetInFd IN
             IF o % lowLevelPageSize # 0
             THEN lastOp.threw =
                     Some(Error("offsetInFd must be multiple of page size ",
                                Some(lowLevelPageSize), ""))
             ELSE \/ lastOp.threw = Undefined
                  \/ ValueOf(lastOp.threw).prefix
                        # "offsetInFd must be multiple of page size "

C23_Witness ==
    /\ lowLevelPageSize = 4 * determinePageSize
    /\ lastOp.op = "mmapFd"
    /\ ValueOf(lastOp.req).offsetInFd = 2 * determinePageSize
    /\ lastOp.threw = Some(Error("offsetInFd must be multiple of page size ",
                                 Some(16384), ""))

\* C24: mmapFd checks the offset, then the length, translates the flags,
\* checks the descriptor, calls the low-level mmap and constructs the
\* mapping, in this order: a request that violates several preconditions
\* gets the error of the earliest check that fails, and fstat is not
\* called when the offset or the length check fails
C24_StepOrder ==
    lastOp.op = "mmapFd"
        => LET req == ValueOf(lastOp.req)
               badOffset == req.offsetInFd % determinePageSize # 0
               badLength == req.length <= 0
               badFd == req.fd < 0 \/ req.fd \notin OpenFds
               n == Len(lastOp.steps)
           IN  /\ n >= 1
               /\ lastOp.steps = SubSeq(mmapFdSteps, 1, n)
               /\ badOffset => lastOp.threw = Some(AlignmentError)
               /\ (~badOffset /\ badLength) => lastOp.threw = Some(LengthError)
               /\ (badOffset \/ badLength) => (n = 1 /\ lastOp.fstat = Undefined)
               /\ (~badOffset /\ ~badLength /\ badFd)
                     => /\ n = 3
                        /\ IsDefined(lastOp.threw)
                        /\ ValueOf(lastOp.threw).prefix = "invalid file descriptor "
               /\ IsDefined(lastOp.mmapCall) <=> n >= 4
               /\ IsDefined(lastOp.mapping) <=> n = 5

C24_Witness ==
    /\ lastOp.op = "mmapFd"
    /\ ValueOf(lastOp.req).offsetInFd = 100
    /\ ValueOf(lastOp.req).length = 0
    /\ ValueOf(lastOp.req).fd = 9
    /\ lastOp.threw = Some(AlignmentError)
    /\ lastOp.fstat = Undefined

\* C25: every call of the low-level mmap made by mmapFd passes the address
\* 0, the descriptor, the offset and the length of the request unchanged,
\* and the translations of the protection and of the flags of that request
C25_MmapArguments ==
    (lastOp.op = "mmapFd" /\ IsDefined(lastOp.mmapCall))
        => LET req == ValueOf(lastOp.req)
               call == ValueOf(lastOp.mmapCall)
           IN  /\ call.address = 0
               /\ call.fd = req.fd
               /\ call.offset = req.offsetInFd
               /\ call.length = req.length
               /\ call.prot
                     = memoryProtectionFlagsToSyscallValue(req.memoryProtectionFlags)
               /\ call.flags
                     = BitOr(mappingVisibilityToMmapFlags(req.mappingVisibility),
                             genericFlagsToMmapFlags(req.genericFlags))

C25_Witness ==
    /\ lastOp.op = "mmapFd"
    /\ IsDefined(lastOp.mmapCall)
    /\ ValueOf(lastOp.mmapCall).address = 0
    /\ ValueOf(lastOp.mmapCall).offset = determinePageSize
    /\ ValueOf(lastOp.mmapCall).length = 2 * determinePageSize
    /\ ValueOf(lastOp.mmapCall).fd = 3
    /\ ValueOf(lastOp.mmapCall).prot = 1
    /\ ValueOf(lastOp.mmapCall).flags = 2

\* C26: every call of the low-level mmap made by mmapFd has an offset that
\* is a non-negative multiple of the page size, a positive length and a
\* descriptor that is not negative and passed fstat
C26_MmapRequestInvariant ==
    (lastOp.op = "mmapFd" /\ IsDefined(lastOp.mmapCall))
        => LET call == ValueOf(lastOp.mmapCall) IN
           /\ call.offset >= 0
           /\ call.offset % determinePageSize = 0
           /\ call.length > 0
           /\ call.fd >= 0
           /\ call.fd \in OpenFds
           /\ lastOp.fstat = Some(call.fd)

\* C27: a handle starts mapped, made by an mmapFd that returns it; once
\* unmapped it stays unmapped whatever is done; and it passes from mapped
\* to unmapped only in an unmap whose low-level munmap reports success
C27_HandleStatesStep ==
    /\ \A h \in HandleIds :
          /\ ~handles[h].mapped => ~handles'[h].mapped
          /\ (handles[h].mapped /\ ~handles'[h].mapped)
                => /\ unmap(h, Undefined)
                   /\ lastOp'.munmapRes = Some(Undefined)
    /\ Len(handles') >= Len(handles)
    /\ Len(handles') > Len(handles)
          => /\ Len(handles') = Len(handles) + 1
             /\ handles'[Len(handles')].mapped
             /\ lastOp'.op = "mmapFd"
             /\ lastOp'.h = Len(handles')
             /\ IsDefined(lastOp'.mapping)
             /\ lastOp'.errno = Undefined

C27_HandleStates == [][C27_HandleStatesStep]_vars

C27_Witness ==
    \E h \in HandleIds :
        /\ ~handles[h].mapped
        /\ h \in collected
        /\ lastOp.op = "mmapFd"
        /\ lastOp.h # h
        /\ IsDefined(lastOp.mapping)
        /\ handles[lastOp.h].mapped

\* the number of cells of the registry whose token is that of h
Cells(h) == Len(SelectSeq(registry, LAMBDA cell : cell.token = h))

\* C28: a handle whose closure has not been reclaimed is registered if and
\* only if it is mapped; it is registered once, when it is constructed,
\* and it is unregistered in the step of the unmap that makes it unmapped
C28_RegisteredIffMappedStep ==
    \A h \in 1..Len(handles') :
        /\ (h \notin HandleIds) => Cells(h)' = 1
        /\ (h \in HandleIds /\ Cells(h)' > Cells(h)) => FALSE
        /\ (h \in HandleIds /\ Cells(h)' < Cells(h) /\ h \notin collected')
              => /\ handles[h].mapped
                 /\ ~handles'[h].mapped
                 /\ unmap(h, Undefined)

C28_RegisteredIffMapped ==
    /\ [](\A h \in HandleIds \ collected :
             /\ Registered(h) <=> handles[h].mapped
             /\ Cells(h) <= 1)
    /\ [][C28_RegisteredIffMappedStep]_vars

C28_Witness ==
    \E h \in HandleIds : \E g \in HandleIds :
        /\ h \notin collected
        /\ ~handles[h].mapped
        /\ ~Registered(h)
        /\ g \notin collected
        /\ FailedUnmap(g)
        /\ Registered(g)

\* C29: createArrayBuffer on a mapped handle returns a buffer of the length
\* of the handle at its address and changes nothing: not the mapped flag,
\* not the registry, not the address and the length; called again it
\* returns the same
C29_ViewStep ==
    \A h \in HandleIds :
        (createArrayBuffer(h) /\ handles[h].mapped)
            => /\ lastOp'.threw = Undefined
               /\ lastOp'.view = Some([address |-> origin[h].address,
                                       byteLength |-> origin[h].length])
               /\ handles' = handles
               /\ registry' = registry
               /\ objects' = objects
               /\ createArrayBufferBody(handles'[h]).view = lastOp'.view

C29_View == [][C29_ViewStep]_vars

C29_Witness ==
    \E h \in HandleIds :
        /\ lastOp.op = "createArrayBuffer"
        /\ lastOp.h = h
        /\ lastOp.prevFailed
        /\ lastOp.view = Some([address |-> origin[h].address,
                               byteLength |-> 2 * determinePageSize])
        /\ handles[h].mapped
        /\ Registered(h)

\* C30: unmap on an unmapped handle only throws: it does not call the
\* low-level munmap, leaves the handle as it is and leaves the registry
\* as it is
C30_ReleaseUnmappedStep ==
    \A h \in HandleIds : \A errno \in MunmapResults :
        (unmap(h, errno) /\ ~handles[h].mapped)
            => /\ lastOp'.threw = Some(AlreadyUnmappedError)
               /\ lastOp'.munmapCall = Undefined
               /\ lastOp'.munmapRes = Undefined
               /\ handles' = handles
               /\ registry' = registry
               /\ munmapOk' = munmapOk
               /\ released' = released
               /\ leaks' = leaks

C30_ReleaseUnmapped == [][C30_ReleaseUnmappedStep]_vars

C30_Witness ==
    \E h \in HandleIds :
        /\ lastOp.op = "unmap"
        /\ lastOp.h = h
        /\ ~handles[h].mapped
        /\ lastOp.threw = Some(AlreadyUnmappedError)
        /\ lastOp.munmapCall = Undefined
        /\ munmapOk[h] = 1
        /\ \E g \in HandleIds : g # h /\ Registered(g)

\* C31: every call of the low-level munmap made for a handle passes the
\* address mmap returned for it and the length requested for it, and every
\* leak error of a handle carries these two as its bufferInfo, whatever the
\* caller has assigned to the address and the length of the mapping object
C31_CapturedAtConstruction ==
    /\ (lastOp.op = "unmap" /\ IsDefined(lastOp.munmapCall))
          => lastOp.munmapCall = Some(origin[lastOp.h])
    /\ \A h \in HandleIds : \A i \in 1..Len(leaks[h]) :
          leaks[h][i].bufferInfo = origin[h]

C31_Witness ==
    \E h \in HandleIds :
        /\ objects[h].address # origin[h].address
        /\ objects[h].length # origin[h].length
        /\ FailedUnmap(h)
        /\ lastOp.munmapCall = Some(origin[h])
        /\ Len(leaks[h]) = 1
        /\ leaks[h][1].bufferInfo = origin[h]

\* C32: an unmap, whether it returns or throws, and a createArrayBuffer on
\* one handle leave the mapped flag and the registry cells of every other
\* handle as they were, also when the other handle has the same address and
\* the same length
C32_IndependentStep ==
    \A h \in HandleIds :
        ((\E errno \in MunmapResults : unmap(h, errno)) \/ createArrayBuffer(h))
            => \A g \in HandleIds \ {h} :
                  /\ handles'[g] = handles[g]
                  /\ Cells(g)' = Cells(g)
                  /\ Registered(g)' = Registered(g)

C32_Independent == [][C32_IndependentStep]_vars

C32_Witness ==
    \E h \in HandleIds : \E g \in HandleIds \ {h} :
        /\ origin[g] = origin[h]
        /\ lastOp.op = "unmap"
        /\ lastOp.h = h
        /\ lastOp.threw = Some(AlreadyUnmappedError)
        /\ munmapOk[h] = 1
        /\ ~handles[h].mapped
        /\ ~Registered(h)
        /\ g > h
        /\ munmapOk[g] = 0
        /\ handles[g].mapped
        /\ Registered(g)
        /\ g \notin collected

\* the caller has a way to call unmap of h: it holds the function by
\* itself, or a mapping object that still has the property
CanRelease(h) ==
    \/ h \in unmapRef
    \/ h \in handleRef /\ objects[h].unmap

\* C33: a leak error is thrown for a handle only in a step from a state
\* where the caller has no way to call its unmap and the handle is mapped
\* and registered; a handle with a leak error is one the caller cannot
\* release; and a call of mmapFd that throws or returns an errno adds no
\* cell to the registry and no leak error
C33_LeakOnlyWhenLostStep ==
    /\ \A h \in HandleIds :
          leaks'[h] # leaks[h]
             => /\ ~CanRelease(h)
                /\ Registered(h)
                /\ handles[h].mapped
                /\ h \in collected'
    /\ (/\ lastOp'.op = "mmapFd"
        /\ lastOp'.mapping = Undefined
        /\ \E res \in MmapResults : mmapFd(ValueOf(lastOp'.req), res))
          => /\ registry' = registry
             /\ leaks' = leaks
             /\ handles' = handles

C33_LeakOnlyWhenLost ==
    /\ [](\A h \in HandleIds :
             leaks[h] # << >> => (~CanRelease(h) /\ h \notin released))
    /\ [](Len(leaks) = Len(objects))
    /\ [][C33_LeakOnlyWhenLostStep]_vars

C33_Witness ==
    \E h \in HandleIds :
        /\ leaks[h] = << LeakOf(h) >>
        /\ h \in handleRef
        /\ ~objects[h].unmap
        /\ lastOp.op = "mmapFd"
        /\ IsDefined(lastOp.threw)
        /\ Len(registry) = 0

\* C34: the low-level munmap reporting an errno exactly when it did not
\* unmap, the handles whose range the operating system has mapped are the
\* handles that are mapped; and every address the low-level mmap returned
\* to mmapFd belongs to a handle
C34_ResourceAccounting ==
    /\ \A h \in HandleIds : OsMapped(h) <=> handles[h].mapped
    /\ Len(origin) = Len(handles)
    /\ (/\ lastOp.op = "mmapFd"
        /\ IsDefined(lastOp.mmapRes)
        /\ IsDefined(ValueOf(lastOp.mmapRes).address))
          => /\ IsDefined(lastOp.mapping)
             /\ lastOp.h = Len(handles)
             /\ origin[lastOp.h].address = ValueOf(ValueOf(lastOp.mmapRes).address)
             /\ OsMapped(lastOp.h)
             /\ handles[lastOp.h].mapped

C34_Witness ==
    \E h \in HandleIds : \E g \in HandleIds :
        /\ lastOp.op = "unmap"
        /\ lastOp.h = h
        /\ lastOp.prevFailed
        /\ lastOp.threw = Undefined
        /\ ~OsMapped(h)
        /\ ~handles[h].mapped
        /\ g \in collected
        /\ leaks[g] # << >>
        /\ OsMapped(g)
        /\ handles[g].mapped

\* C35: after an unmap that threw because munmap reported an errno the
\* handle is mapped and, unless reclaimed, registered; it stays so until an
\* unmap of it finds munmap succeeding; that unmap returns normally, clears
\* the mapped flag and removes the cell of the handle; and no leak error is
\* thrown for a handle on which an unmap returned normally
C35_RetryStep ==
    \A h \in HandleIds :
        /\ (handles[h].mapped /\ unmap(h, Undefined))
              => /\ lastOp'.threw = Undefined
                 /\ lastOp'.munmapCall = Some(origin[h])
                 /\ ~handles'[h].mapped
                 /\ Cells(h)' = 0
                 /\ h \in released'
                 /\ leaks'[h] = << >>
        /\ (handles[h].mapped /\ ~handles'[h].mapped) => unmap(h, Undefined)
        /\ (Cells(h) = 1 /\ Cells(h)' = 0)
              => (unmap(h, Undefined) \/ h \in collected' \ collected)

C35_RetryAfterFailure ==
    /\ [](\A h \in HandleIds :
             /\ FailedUnmap(h) =>
                   (handles[h].mapped /\ (h \notin collected => Cells(h) = 1))
             /\ h \in released => (Cells(h) = 0 /\ leaks[h] = << >>))
    /\ [][C35_RetryStep]_vars

C35_Witness ==
    \E h \in HandleIds :
        /\ lastOp.op = "unmap"
        /\ lastOp.h = h
        /\ lastOp.prevFailed
        /\ lastOp.munmapRes = Some(Undefined)
        /\ lastOp.threw = Undefined
        /\ h \in released
        /\ ~handles[h].mapped
        /\ Cells(h) = 0
        /\ h \in collected
        /\ leaks[h] = << >>

\* C36: a call of mmapFd that throws or returns an errno leaves the
\* registry, the closures and the objects of the handles there are, their
\* leak errors and what the operating system has mapped for them as they
\* were, adds no handle and calls no low-level munmap
C36_FailedMmapFdStep ==
    (/\ lastOp'.op = "mmapFd"
     /\ (IsDefined(lastOp'.threw) \/ IsDefined(lastOp'.errno))
     /\ \E res \in MmapResults : mmapFd(ValueOf(lastOp'.req), res))
        => /\ registry' = registry
           /\ handles' = handles
           /\ objects' = objects
           /\ leaks' = leaks
           /\ munmapOk' = munmapOk
           /\ released' = released
           /\ registrations' = registrations
           /\ lastOp'.mapping = Undefined
           /\ lastOp'.munmapCall = Undefined
           /\ lastOp'.munmapRes = Undefined

C36_FailedMmapFd == [][C36_FailedMmapFdStep]_vars

C36_Witness ==
    /\ lastOp.op = "mmapFd"
    /\ ValueOf(lastOp.req).fd = 9
    /\ IsDefined(lastOp.threw)
    /\ lastOp.mmapCall = Undefined
    /\ Len(handles) = 1
    /\ handles[1].mapped
    /\ Cells(1) = 1
    /\ Len(registry) = 1

\* the advisory flags that are set: the keys present with the value true
AdvisorySet(genericFlags) ==
    {key \in DOMAIN genericFlags : genericFlags[key] = TRUE}

\* C37: the flags mmapFd hands to the low-level mmap differ from the flags
\* of every request with another visibility or another set of advisory
\* flags; their two lowest bits are 2 for MAP_PRIVATE and 3 for MAP_SHARED,
\* whatever the advisory flags; and they are never 0
C37_FlagsInjective ==
    (lastOp.op = "mmapFd" /\ IsDefined(lastOp.mmapCall))
        => LET req == ValueOf(lastOp.req)
               flags == ValueOf(lastOp.mmapCall).flags
           IN  /\ \A v \in Visibilities : \A g \in AllGenericFlags :
                     (<< v, AdvisorySet(g) >>
                         # << req.mappingVisibility, AdvisorySet(req.genericFlags) >>)
                        => mmapArguments([req EXCEPT !.mappingVisibility = v,
                                                     !.genericFlags = g]).flags
                              # flags
               /\ flags % 4 = mappingVisibilityToMmapFlags(req.mappingVisibility)
               /\ flags % 4 = (IF req.mappingVisibility = "MAP_PRIVATE" THEN 2 ELSE 3)
               /\ flags # 0

C37_Witness ==
    /\ lastOp.op = "mmapFd"
    /\ ValueOf(lastOp.req).mappingVisibility = "MAP_SHARED"
    /\ AdvisorySet(ValueOf(lastOp.req).genericFlags)
          = {"MAP_32BIT", "MAP_LOCKED", "MAP_NORESERVE"}
    /\ ValueOf(lastOp.mmapCall).flags = 24643
    /\ ValueOf(lastOp.mmapCall).flags % 4 = 3

====
